---- MODULE Spec2Model ----
(***************************************************************************)
(* Model of the bombardier request-driver engine (src/bombardier.go):      *)
(* newBombardier, bombard, worker, performSingleRequest, writeStatistics,  *)
(* rateMeter, barUpdater, recordRps and the cancel handler of main.        *)
(* The completion barrier, the rate limiter, the client and the error map  *)
(* are collaborators whose source is not part of src/; they are modelled   *)
(* from their contract in spec.md (sections 4.1, 4.2, 4.3, 3).             *)
(***************************************************************************)
EXTENDS Integers, FiniteSets, Sequences, TLC

\* ---------------------------------------------------------------- bounds
MaxConns == 2
MaxReqs == 2
\* histograms given to latenciesPercentile: keys 1..MaxKey, counts up to
\* MaxCount each
MaxKey == 3
MaxCount == 2
\* finite keys of the histograms given to rpsString: 0..MaxRps
MaxRps == 1

\* ------------------------------------------------------- input domains
\* status codes a server answers with (one per class 1xx..7xx)
OkCodes == {101, 201, 301, 401, 501, 601, 701}
\* canonical descriptions of transport errors
Errs == {"timeout"}
\* latencies reported by client.do(), in microseconds
Latencies == {1, 2}
\* percentiles asked of latenciesPercentile (printLatencyStats asks for
\* 50, 75, 90, 99)
Percentiles == {1, 25, 50, 75, 90, 99, 100}
\* client certificate files given in the configuration
CertFiles == {"", "good", "unreadable", "invalid"}

NoErr == "nil"

\* what one client.do() call can return: (code, msTaken, err); status 0
\* comes together with an error
Ok(code, ms) == [code |-> code, msTaken |-> ms, err |-> NoErr]

Failed(e, ms) == [code |-> 0, msTaken |-> ms, err |-> e]

\* the targets bombarded: each is the set of results its requests can have
Servers ==
  { {Ok(201, 1)},
    {Failed("timeout", 2)},
    {Ok(201, 1), Failed("timeout", 2)},
    {Ok(101, 1), Ok(701, 2)},
    {Ok(301, 2), Ok(601, 1)},
    {Ok(401, 1), Ok(501, 1)} }

NoResult == [code |-> 0, msTaken |-> 0, err |-> NoErr]

\* config: exactly one of numReqs and duration is set (numReqs = 0 stands
\* for nil); rate is whether a rate cap is given
Configs ==
  [testType : {"counted"}, numReqs : 1..MaxReqs,
   numConns : 1..MaxConns, rate : BOOLEAN]
    \cup [testType : {"timed"}, numReqs : {0},
          numConns : 1..MaxConns, rate : BOOLEAN]

VARIABLES
  conf,       \* b.conf
  server,     \* results the target gives to client.do()
  pc,         \* position of main / bombard()
  certErr,    \* outcome of reading the client certificate
  issued,     \* barrier: units reserved (counted)
  completed,  \* barrier: units finished (counted)
  done,       \* barrier: the done signal
  expired,    \* timed barrier: the deadline has passed
  cancelled,  \* barrier: cancel() has been called
  wpc,        \* position of each worker goroutine
  cur,        \* (code, msTaken, err) held by each worker
  workers,    \* b.workers (WaitGroup counter)
  doneChan,   \* number of tokens buffered in b.doneChan
  rmPc,       \* position of rateMeter()
  buPc,       \* position of barUpdater()
  latencies,  \* b.latencies : key -> count
  reqs,       \* b.reqs
  drained,    \* sum of the request counts recorded into b.requests
  counters,   \* b.req1xx .. b.req5xx, b.others
  errors,     \* b.errors : description -> count
  timeTaken,  \* b.timeTaken has been assigned
  calls,      \* client.do() calls started
  grabbed,    \* successful tryGrabWork() calls
  jobs,       \* jobDone() calls
  resp,       \* client.do() results returned : code -> count
  errResp,    \* client.do() calls that returned an error
  pctOut,     \* latenciesPercentile results computed so far : p -> key
  statOut     \* results of rpsString and latenciesString, in call order

vars ==
  <<conf, server, pc, certErr, issued, completed, done, expired, cancelled,
    wpc, cur, workers, doneChan, rmPc, buPc, latencies, reqs, drained,
    counters, errors, timeTaken, calls, grabbed, jobs, resp, errResp,
    pctOut, statOut>>

barrierVars == <<issued, completed, done, expired, cancelled>>
statVars == <<latencies, reqs, drained, counters, errors>>
ghostVars == <<calls, grabbed, jobs, resp, errResp>>
observerVars == <<doneChan, rmPc, buPc>>
printVars == <<pctOut, statOut>>

Workers == 1..conf.numConns

CounterNames == {"req1xx", "req2xx", "req3xx", "req4xx", "req5xx", "others"}

Codes == OkCodes \cup {0}

RECURSIVE SumOver(_, _)
SumOver(f, S) ==
  IF S = {} THEN 0
  ELSE LET x == CHOOSE y \in S : TRUE IN f[x] + SumOver(f, S \ {x})

Sum(f) == SumOver(f, DOMAIN f)

Init ==
  /\ conf \in Configs
  /\ server \in Servers
  /\ pc = "main"
  /\ certErr = "none"
  /\ issued = 0
  /\ completed = 0
  /\ done = FALSE
  /\ expired = FALSE
  /\ cancelled = FALSE
  /\ wpc = [w \in Workers |-> "idle"]
  /\ cur = [w \in Workers |-> NoResult]
  /\ workers = 0
  /\ doneChan = 0
  /\ rmPc = "idle"
  /\ buPc = "idle"
  /\ latencies = [k \in Latencies |-> 0]
  /\ reqs = 0
  /\ drained = 0
  /\ counters = [c \in CounterNames |-> 0]
  /\ errors = [e \in Errs |-> 0]
  /\ timeTaken = FALSE
  /\ calls = 0
  /\ grabbed = 0
  /\ jobs = 0
  /\ resp = [c \in Codes |-> 0]
  /\ errResp = 0
  /\ pctOut = <<>>
  /\ statOut = <<>>

\* ------------------------------------------------- client certificate
\* readClientCert: "" gives no certificate; a read failure and a key pair
\* failure both end in logFatalf (log.Fatalf), which terminates the process
ReadClientCert(filename) ==
  IF filename = "" THEN [fatal |-> FALSE, err |-> "none"]
  ELSE IF filename = "unreadable" THEN [fatal |-> TRUE, err |-> "read"]
  ELSE IF filename = "invalid" THEN [fatal |-> TRUE, err |-> "keypair"]
  ELSE [fatal |-> FALSE, err |-> "none"]

\* generateTLSConfig returns a *tls.Config only: it has no error result, so
\* the err tested by newBombardier is never set
GenerateTLSConfig(filename) ==
  [cert |-> ReadClientCert(filename), err |-> NoErr]

\* newBombardier: builds barrier, limiter, TLS configuration, client,
\* b.workers.Add(numConns), error map and doneChan
NewBombardier ==
  /\ pc = "main"
  /\ \E filename \in CertFiles :
       LET tls == GenerateTLSConfig(filename) IN
         IF tls.cert.fatal
           THEN /\ pc' = "fatal"
                /\ certErr' = tls.cert.err
                /\ workers' = workers
           ELSE IF tls.err # NoErr
             THEN /\ pc' = "newFailed"
                  /\ certErr' = tls.err
                  /\ workers' = workers
             ELSE /\ pc' = "bombard"
                  /\ certErr' = certErr
                  /\ workers' = conf.numConns
  /\ UNCHANGED <<printVars, conf, server, barrierVars, wpc, cur,
                 observerVars, statVars, timeTaken, ghostVars>>

\* ------------------------------------------------- completion barrier
\* tryGrabWork: reserves a unit iff not done; counted: iff issued < R
TryGrabWork ==
  IF conf.testType = "counted"
    THEN ~done /\ issued < conf.numReqs
    ELSE ~done

IssuedAfterGrab(ok) ==
  IF conf.testType = "counted" /\ ok THEN issued + 1 ELSE issued

\* jobDone: counted increments completed and fires done at R; timed no-op
CompletedAfterJobDone ==
  IF conf.testType = "counted" THEN completed + 1 ELSE completed

\* a done signal recomputed from the counters instead of latched
DoneAfterJobDoneRecomputed ==
  IF conf.testType = "counted"
    THEN completed + 1 = conf.numReqs
    ELSE done

DoneAfterJobDone ==
  IF conf.testType = "counted"
    THEN done \/ (completed + 1 = conf.numReqs)
    ELSE done

\* cancel(): transitions to done, idempotent (any number of calls)
BarrierCancel ==
  /\ cancelled' = TRUE
  /\ done' = TRUE

\* the interrupt handler of main: <-c; bombardier.barrier.cancel()
Cancel ==
  /\ pc \notin {"main", "fatal", "newFailed"}
  /\ BarrierCancel
  /\ UNCHANGED <<printVars, conf, server, pc, certErr, issued, completed,
                 expired, wpc, cur, workers, observerVars, statVars,
                 timeTaken, ghostVars>>

\* the timer of the timed barrier fires at the deadline
Expire ==
  /\ pc \notin {"main", "fatal", "newFailed"}
  /\ conf.testType = "timed"
  /\ ~expired
  /\ expired' = TRUE
  /\ done' = TRUE
  /\ UNCHANGED <<printVars, conf, server, pc, certErr, issued, completed,
                 cancelled, wpc, cur, workers, observerVars, statVars,
                 timeTaken, ghostVars>>

\* ------------------------------------------------------- rate limiter
\* pace(done): the no-op limiter always continues; the bucket limiter
\* continues when a token is there and breaks if done fires while it sleeps
Pace ==
  IF conf.rate /\ done THEN {"cont", "brk"} ELSE {"cont"}

\* ------------------------------------------------------------- worker
\* a worker that returns without b.workers.Done()
WorkerGrabNoDefer(w) ==
  /\ wpc[w] = "grab"
  /\ conf.testType = "timed" /\ ~done => grabbed < MaxReqs
  /\ LET ok == TryGrabWork IN
       /\ issued' = IssuedAfterGrab(ok)
       /\ grabbed' = IF ok THEN grabbed + 1 ELSE grabbed
       /\ wpc' = [wpc EXCEPT ![w] = IF ok THEN "pace" ELSE "exited"]
  /\ UNCHANGED <<printVars, conf, server, pc, certErr, completed, done,
                 expired, cancelled, cur, workers, observerVars, statVars,
                 timeTaken, calls, jobs, resp, errResp>>

\* a worker whose loop goes on when tryGrabWork() yields false
WorkerGrabIgnoresFalse(w) ==
  /\ wpc[w] = "grab"
  /\ LET ok == TryGrabWork IN
       /\ issued' = IssuedAfterGrab(ok)
       /\ grabbed' = IF ok THEN grabbed + 1 ELSE grabbed
       /\ wpc' = [wpc EXCEPT ![w] = "pace"]
  /\ UNCHANGED <<printVars, conf, server, pc, certErr, completed, done,
                 expired, cancelled, cur, workers, observerVars, statVars,
                 timeTaken, calls, jobs, resp, errResp>>

\* for b.barrier.tryGrabWork() { ... }; the worker returns (and runs the
\* deferred b.workers.Done()) when it yields false
WorkerGrab(w) ==
  /\ wpc[w] = "grab"
  /\ conf.testType = "timed" /\ ~done => grabbed < MaxReqs
  /\ LET ok == TryGrabWork IN
       /\ issued' = IssuedAfterGrab(ok)
       /\ grabbed' = IF ok THEN grabbed + 1 ELSE grabbed
       /\ wpc' = [wpc EXCEPT ![w] = IF ok THEN "pace" ELSE "exited"]
       /\ workers' = IF ok THEN workers ELSE workers - 1
  /\ UNCHANGED <<printVars, conf, server, pc, certErr, completed, done,
                 expired, cancelled, cur, observerVars, statVars, timeTaken,
                 calls, jobs, resp, errResp>>

\* a worker that leaves on brk without b.workers.Done()
WorkerPaceBreakNoDefer(w) ==
  /\ wpc[w] = "pace"
  /\ \E r \in Pace :
       /\ wpc' = [wpc EXCEPT ![w] = IF r = "brk" THEN "exited" ELSE "inflight"]
       /\ calls' = IF r = "brk" THEN calls ELSE calls + 1
  /\ UNCHANGED <<printVars, conf, server, pc, certErr, barrierVars, cur,
                 workers, observerVars, statVars, timeTaken, grabbed, jobs,
                 resp, errResp>>

\* a worker that calls b.barrier.jobDone() before leaving on brk
WorkerPaceBreakJobDone(w) ==
  /\ wpc[w] = "pace"
  /\ \E r \in Pace :
       /\ wpc' = [wpc EXCEPT ![w] = IF r = "brk" THEN "exited" ELSE "inflight"]
       /\ workers' = IF r = "brk" THEN workers - 1 ELSE workers
       /\ calls' = IF r = "brk" THEN calls ELSE calls + 1
       /\ jobs' = IF r = "brk" THEN jobs + 1 ELSE jobs
       /\ completed' = IF r = "brk" THEN CompletedAfterJobDone ELSE completed
       /\ done' = IF r = "brk" THEN DoneAfterJobDone ELSE done
  /\ UNCHANGED <<printVars, conf, server, pc, certErr, issued, expired,
                 cancelled, cur, observerVars, statVars, timeTaken, grabbed,
                 resp, errResp>>

\* if b.ratelimiter.pace(done) == brk { break }; otherwise
\* performSingleRequest calls b.client.do()
WorkerPace(w) ==
  /\ wpc[w] = "pace"
  /\ \E r \in Pace :
       /\ wpc' = [wpc EXCEPT ![w] = IF r = "brk" THEN "exited" ELSE "inflight"]
       /\ workers' = IF r = "brk" THEN workers - 1 ELSE workers
       /\ calls' = IF r = "brk" THEN calls ELSE calls + 1
  /\ UNCHANGED <<printVars, conf, server, pc, certErr, barrierVars, cur,
                 observerVars, statVars, timeTaken, grabbed, jobs, resp,
                 errResp>>

\* errorMap.add: one more occurrence of the description of err
ErrorMapAdd(err) == [errors EXCEPT ![err] = @ + 1]

\* if err != nil { b.errors.add(err) }
ErrorsAdd(err) ==
  IF err # NoErr THEN ErrorMapAdd(err) ELSE errors

\* a failed request returns early and is not passed to writeStatistics
WorkerDoReturnSkipsStatistics(w) ==
  /\ wpc[w] = "inflight"
  /\ \E r \in server :
       /\ cur' = [cur EXCEPT ![w] = IF r.err # NoErr THEN NoResult ELSE r]
       /\ resp' = [resp EXCEPT ![r.code] = @ + 1]
       /\ errResp' = IF r.err # NoErr THEN errResp + 1 ELSE errResp
       /\ errors' = ErrorsAdd(r.err)
       /\ wpc' = [wpc EXCEPT ![w] = IF r.err # NoErr THEN "jobdone" ELSE "lat"]
  /\ UNCHANGED <<printVars, conf, server, pc, certErr, barrierVars, workers,
                 observerVars, latencies, reqs, drained, counters, timeTaken,
                 calls, grabbed, jobs>>

\* b.client.do() returns code, msTaken, err; if err != nil, b.errors.add(err)
WorkerDoReturn(w) ==
  /\ wpc[w] = "inflight"
  /\ \E r \in server :
       /\ cur' = [cur EXCEPT ![w] = r]
       /\ resp' = [resp EXCEPT ![r.code] = @ + 1]
       /\ errResp' = IF r.err # NoErr THEN errResp + 1 ELSE errResp
       /\ errors' = ErrorsAdd(r.err)
  /\ wpc' = [wpc EXCEPT ![w] = "lat"]
  /\ UNCHANGED <<printVars, conf, server, pc, certErr, barrierVars, workers,
                 observerVars, latencies, reqs, drained, counters, timeTaken,
                 calls, grabbed, jobs>>

\* writeStatistics not recording the latency of a failed request
WorkerLatSkipsOnError(w) ==
  /\ wpc[w] = "lat"
  /\ latencies' = IF cur[w].err # NoErr THEN latencies
                  ELSE [latencies EXCEPT ![cur[w].msTaken] = @ + 1]
  /\ wpc' = [wpc EXCEPT ![w] = "reqs"]
  /\ UNCHANGED <<printVars, conf, server, pc, certErr, barrierVars, cur,
                 workers, observerVars, reqs, drained, counters, errors,
                 timeTaken, ghostVars>>

\* writeStatistics: b.latencies.Increment(msTaken)
WorkerLat(w) ==
  /\ wpc[w] = "lat"
  /\ latencies' = [latencies EXCEPT ![cur[w].msTaken] = @ + 1]
  /\ wpc' = [wpc EXCEPT ![w] = "reqs"]
  /\ UNCHANGED <<printVars, conf, server, pc, certErr, barrierVars, cur,
                 workers, observerVars, reqs, drained, counters, errors,
                 timeTaken, ghostVars>>

\* writeStatistics: b.rpl.Lock(); b.reqs++; b.rpl.Unlock()
WorkerReqs(w) ==
  /\ wpc[w] = "reqs"
  /\ reqs' = reqs + 1
  /\ wpc' = [wpc EXCEPT ![w] = "bucket"]
  /\ UNCHANGED <<printVars, conf, server, pc, certErr, barrierVars, cur,
                 workers, observerVars, latencies, drained, counters, errors,
                 timeTaken, ghostVars>>

\* the switch without its case 5
StatusCounterNoCase5(code) ==
  LET q == code \div 100 IN
    IF q = 1 THEN "req1xx"
    ELSE IF q = 2 THEN "req2xx"
    ELSE IF q = 3 THEN "req3xx"
    ELSE IF q = 4 THEN "req4xx"
    ELSE "others"

\* writeStatistics: switch code / 100
StatusCounter(code) ==
  LET q == code \div 100 IN
    IF q = 1 THEN "req1xx"
    ELSE IF q = 2 THEN "req2xx"
    ELSE IF q = 3 THEN "req3xx"
    ELSE IF q = 4 THEN "req4xx"
    ELSE IF q = 5 THEN "req5xx"
    ELSE "others"

\* a plain, non-atomic increment: it is lost when another worker is
\* incrementing at the same time
WorkerBucketRacy(w) ==
  /\ wpc[w] = "bucket"
  /\ counters' =
       IF \E v \in Workers \ {w} : wpc[v] = "bucket"
         THEN counters
         ELSE [counters EXCEPT ![StatusCounter(cur[w].code)] = @ + 1]
  /\ cur' = [cur EXCEPT ![w] = NoResult]
  /\ wpc' = [wpc EXCEPT ![w] = "jobdone"]
  /\ UNCHANGED <<printVars, conf, server, pc, certErr, barrierVars, workers,
                 observerVars, latencies, reqs, drained, errors, timeTaken,
                 ghostVars>>

\* writeStatistics: atomic.AddUint64(counter, 1)
WorkerBucket(w) ==
  /\ wpc[w] = "bucket"
  /\ counters' = [counters EXCEPT ![StatusCounter(cur[w].code)] = @ + 1]
  /\ cur' = [cur EXCEPT ![w] = NoResult]
  /\ wpc' = [wpc EXCEPT ![w] = "jobdone"]
  /\ UNCHANGED <<printVars, conf, server, pc, certErr, barrierVars, workers,
                 observerVars, latencies, reqs, drained, errors, timeTaken,
                 ghostVars>>

\* a loop that does not ask tryGrabWork() again after jobDone()
WorkerJobDoneNoRecheck(w) ==
  /\ wpc[w] = "jobdone"
  /\ completed' = CompletedAfterJobDone
  /\ done' = DoneAfterJobDone
  /\ jobs' = jobs + 1
  /\ wpc' = [wpc EXCEPT ![w] = "pace"]
  /\ UNCHANGED <<printVars, conf, server, pc, certErr, issued, expired,
                 cancelled, cur, workers, observerVars, statVars, timeTaken,
                 calls, grabbed, resp, errResp>>

\* jobDone() called twice for one request
WorkerJobDoneTwice(w) ==
  /\ wpc[w] = "jobdone"
  /\ completed' = CompletedAfterJobDone + 1
  /\ done' = (DoneAfterJobDone \/ completed + 2 = conf.numReqs)
  /\ jobs' = jobs + 2
  /\ wpc' = [wpc EXCEPT ![w] = "grab"]
  /\ UNCHANGED <<printVars, conf, server, pc, certErr, issued, expired,
                 cancelled, cur, workers, observerVars, statVars, timeTaken,
                 calls, grabbed, resp, errResp>>

\* an iteration that ends without b.barrier.jobDone()
WorkerJobDoneSkipped(w) ==
  /\ wpc[w] = "jobdone"
  /\ jobs' = jobs + 1
  /\ wpc' = [wpc EXCEPT ![w] = "grab"]
  /\ UNCHANGED <<printVars, conf, server, pc, certErr, barrierVars, cur,
                 workers, observerVars, statVars, timeTaken, calls, grabbed,
                 resp, errResp>>

\* b.barrier.jobDone(), then back to the loop condition
WorkerJobDone(w) ==
  /\ wpc[w] = "jobdone"
  /\ completed' = CompletedAfterJobDone
  /\ done' = DoneAfterJobDone
  /\ jobs' = jobs + 1
  /\ wpc' = [wpc EXCEPT ![w] = "grab"]
  /\ UNCHANGED <<printVars, conf, server, pc, certErr, issued, expired,
                 cancelled, cur, workers, observerVars, statVars, timeTaken,
                 calls, grabbed, resp, errResp>>

\* ---------------------------------------------------------- rate meter
\* recordRps: under b.rpl, read b.reqs, reset it to zero and record the
\* sample count / elapsed into b.requests
RecordRps ==
  /\ reqs' = 0
  /\ drained' = drained + reqs

\* case <-tick: b.recordRps()
RateMeterTick ==
  /\ rmPc = "select"
  /\ RecordRps
  /\ UNCHANGED <<printVars, conf, server, pc, certErr, barrierVars, wpc, cur,
                 workers, observerVars, latencies, counters, errors,
                 timeTaken, ghostVars>>

\* case <-done: b.recordRps() first, then about to call b.workers.Wait()
RateMeterDoneSamples ==
  /\ rmPc = "select"
  /\ done
  /\ RecordRps
  /\ rmPc' = "wait"
  /\ UNCHANGED <<printVars, conf, server, pc, certErr, barrierVars, wpc, cur,
                 workers, doneChan, buPc, latencies, counters, errors,
                 timeTaken, ghostVars>>

\* case <-done: about to call b.workers.Wait()
RateMeterDone ==
  /\ rmPc = "select"
  /\ done
  /\ rmPc' = "wait"
  /\ UNCHANGED <<printVars, conf, server, pc, certErr, barrierVars, wpc, cur,
                 workers, doneChan, buPc, statVars, timeTaken, ghostVars>>

\* b.recordRps() and the send without b.workers.Wait()
RateMeterWaitNoWait ==
  /\ rmPc = "wait"
  /\ RecordRps
  /\ rmPc' = "send"
  /\ UNCHANGED <<printVars, conf, server, pc, certErr, barrierVars, wpc, cur,
                 workers, doneChan, buPc, latencies, counters, errors,
                 timeTaken, ghostVars>>

\* the done case without the final b.recordRps()
RateMeterWaitNoSample ==
  /\ rmPc = "wait"
  /\ workers = 0
  /\ rmPc' = "send"
  /\ UNCHANGED <<printVars, conf, server, pc, certErr, barrierVars, wpc, cur,
                 workers, doneChan, buPc, statVars, timeTaken, ghostVars>>

\* b.workers.Wait() returns; b.recordRps()
RateMeterWait ==
  /\ rmPc = "wait"
  /\ workers = 0
  /\ RecordRps
  /\ rmPc' = "send"
  /\ UNCHANGED <<printVars, conf, server, pc, certErr, barrierVars, wpc, cur,
                 workers, doneChan, buPc, latencies, counters, errors,
                 timeTaken, ghostVars>>

\* b.doneChan <- struct{}{}; return
RateMeterSend ==
  /\ rmPc = "send"
  /\ doneChan < 2
  /\ doneChan' = doneChan + 1
  /\ rmPc' = "done"
  /\ UNCHANGED <<printVars, conf, server, pc, certErr, barrierVars, wpc, cur,
                 workers, buPc, statVars, timeTaken, ghostVars>>

\* ---------------------------------------------------- progress reporter
\* default: the bar is set to the completion ratio and redrawn, then the
\* updater sleeps; the bar itself is the external progress bar
BarUpdaterPoll ==
  /\ buPc = "select"
  /\ ~done
  /\ UNCHANGED <<printVars, conf, server, pc, certErr, barrierVars, wpc, cur,
                 workers, observerVars, statVars, timeTaken, ghostVars>>

\* case <-done: b.bar.Set64(b.bar.Total); ...; fmt.Fprintln(b.out, "Done!")
BarUpdaterDone ==
  /\ buPc = "select"
  /\ done
  /\ buPc' = "send"
  /\ UNCHANGED <<printVars, conf, server, pc, certErr, barrierVars, wpc, cur,
                 workers, doneChan, rmPc, statVars, timeTaken, ghostVars>>

\* b.doneChan <- struct{}{}; return
BarUpdaterSend ==
  /\ buPc = "send"
  /\ doneChan < 2
  /\ doneChan' = doneChan + 1
  /\ buPc' = "done"
  /\ UNCHANGED <<printVars, conf, server, pc, certErr, barrierVars, wpc, cur,
                 workers, rmPc, statVars, timeTaken, ghostVars>>

\* -------------------------------------------------------- orchestrator
\* bombard(): spawn numConns workers, the rate meter and the bar updater
Spawn ==
  /\ pc = "bombard"
  /\ wpc' = [w \in Workers |-> "grab"]
  /\ rmPc' = "select"
  /\ buPc' = "select"
  /\ pc' = "wait"
  /\ UNCHANGED <<printVars, conf, server, certErr, barrierVars, cur, workers,
                 doneChan, statVars, timeTaken, ghostVars>>

\* b.timeTaken assigned without b.workers.Wait()
WorkersWaitNoWait ==
  /\ pc = "wait"
  /\ timeTaken' = TRUE
  /\ pc' = "recv1"
  /\ UNCHANGED <<printVars, conf, server, certErr, barrierVars, wpc, cur,
                 workers, observerVars, statVars, ghostVars>>

\* b.workers.Wait(); b.timeTaken = time.Since(bombardmentBegin)
WorkersWait ==
  /\ pc = "wait"
  /\ workers = 0
  /\ timeTaken' = TRUE
  /\ pc' = "recv1"
  /\ UNCHANGED <<printVars, conf, server, certErr, barrierVars, wpc, cur,
                 workers, observerVars, statVars, ghostVars>>

\* bombard() returning after a single <-b.doneChan
RecvOnce ==
  /\ pc \in {"recv1", "recv2"}
  /\ doneChan > 0
  /\ doneChan' = doneChan - 1
  /\ pc' = "returned"
  /\ UNCHANGED <<printVars, conf, server, certErr, barrierVars, wpc, cur,
                 workers, rmPc, buPc, statVars, timeTaken, ghostVars>>

\* <-b.doneChan (twice); bombard() returns after the second
Recv ==
  /\ pc \in {"recv1", "recv2"}
  /\ doneChan > 0
  /\ doneChan' = doneChan - 1
  /\ pc' = IF pc = "recv1" THEN "recv2" ELSE "returned"
  /\ UNCHANGED <<printVars, conf, server, certErr, barrierVars, wpc, cur,
                 workers, rmPc, buPc, statVars, timeTaken, ghostVars>>

\* ----------------------------------------------------------- percentiles
\* h.VisitAll: the keys of the histogram are those that were incremented
HistKeys(h) == {k \in DOMAIN h : h[k] > 0}

\* totalCount += v over all keys
HistTotal(h) == SumOver(h, HistKeys(h))

\* sort.Slice(keys, keys[i] < keys[j])
RECURSIVE SortAscending(_)
SortAscending(S) ==
  IF S = {} THEN <<>>
  ELSE LET m == CHOOSE x \in S : \A y \in S : x <= y
       IN <<m>> \o SortAscending(S \ {m})

\* rank := uint64((p/100.0)*float64(totalCount) + 0.5); for the integer
\* percentiles and the totals used here the float64 product rounds to the
\* same integer
PercentileRank(p, totalCount) == (p * totalCount + 50) \div 100

\* for _, k := range keys { total += h.Get(k); if total >= rank {return k} }
\* return 0
RECURSIVE PercentileWalk(_, _, _, _, _)
PercentileWalk(h, keys, i, total, rank) ==
  IF i > Len(keys) THEN 0
  ELSE LET t == total + h[keys[i]]
       IN IF t >= rank THEN keys[i]
          ELSE PercentileWalk(h, keys, i + 1, t, rank)

\* the comparison total > rank instead of total >= rank
LatenciesPercentileStrict(h, p) ==
  LET keys == SortAscending(HistKeys(h))
      rank == PercentileRank(p, HistTotal(h))
      RECURSIVE walk(_, _)
      walk(i, total) ==
        IF i > Len(keys) THEN 0
        ELSE LET t == total + h[keys[i]]
             IN IF t > rank THEN keys[i] ELSE walk(i + 1, t)
  IN walk(1, 0)

\* the keys walked without the sort, here largest first
LatenciesPercentileUnsorted(h, p) ==
  LET asc == SortAscending(HistKeys(h))
      keys == [i \in 1..Len(asc) |-> asc[Len(asc) + 1 - i]]
  IN PercentileWalk(h, keys, 1, 0, PercentileRank(p, HistTotal(h)))

\* latenciesPercentile(h, p)
LatenciesPercentile(h, p) ==
  PercentileWalk(h, SortAscending(HistKeys(h)), 1, 0,
                 PercentileRank(p, HistTotal(h)))

\* histograms of latencies: every key maps to the times it was incremented
Histograms == [1..MaxKey -> 0..MaxCount]

\* n := latenciesPercentile(b.latencies, p), for one percentile
PrintLatencyPercentile ==
  /\ pc = "printStats"
  /\ \E p \in Percentiles \ DOMAIN pctOut :
       pctOut' = pctOut @@ (p :> LatenciesPercentile(latencies, p))
  /\ UNCHANGED <<statOut, conf, server, pc, certErr, barrierVars, wpc, cur, workers,
                 observerVars, statVars, timeTaken, ghostVars>>

\* ------------------------------------------------------ mean and stddev
\* keys of the RPS histogram: float64 values, finite or not
Finite(k) == [kind |-> "finite", v |-> k]
PosInf == [kind |-> "inf", v |-> 0]
NaN == [kind |-> "nan", v |-> 0]
RpsKeys == {Finite(k) : k \in 0..MaxRps} \cup {PosInf, NaN}

\* histograms of RPS samples: every key maps to the times it was incremented
RpsHistograms == [RpsKeys -> 0..MaxCount]

\* math.IsInf(f, 0) || math.IsNaN(f)
NonFinite(f) == f.kind # "finite"

\* the keys the callbacks of rpsString do not skip
RpsVisited(h) == {f \in DOMAIN h : h[f] > 0 /\ ~NonFinite(f)}

\* max over the keys visited, 0 when there is none
MaxOf(S) == IF S = {} THEN 0 ELSE CHOOSE m \in S : \A y \in S : y <= m

\* The results are kept as exact fractions: mean = sum / count,
\* sumOfSquares = sqNum / count^2 and stddev = sqrt(sqNum / count^3),
\* where a term (f - mean)^2 is (f * count - sum)^2 / count^2.
Deviation2(f, sum, count) == (f * count - sum) * (f * count - sum)

\* rpsString(h): count starts at 1; sum += f * c; count += c; max;
\* then sumOfSquares += math.Pow(f - mean, 2), once per key
RpsString(h) ==
  LET keys == RpsVisited(h)
      sum == SumOver([f \in keys |-> f.v * h[f]], keys)
      count == 1 + SumOver(h, keys)
      sumOfSquares ==
        SumOver([f \in keys |-> Deviation2(f.v, sum, count)], keys)
  IN [fn |-> "rpsString", sum |-> sum, count |-> count,
      max |-> MaxOf({f.v : f \in keys}),
      sqNum |-> sumOfSquares]

\* latenciesString(h): count starts at 1; sum += f * c; count += c; max;
\* then sumOfSquares += math.Pow(float64(f) - mean, 2), once per key
LatenciesString(h) ==
  LET keys == HistKeys(h)
      sum == SumOver([f \in keys |-> f * h[f]], keys)
      count == 1 + SumOver(h, keys)
      sumOfSquares ==
        SumOver([f \in keys |-> Deviation2(f, sum, count)], keys)
  IN [fn |-> "latenciesString", sum |-> sum, count |-> count,
      max |-> MaxOf(keys),
      sqNum |-> sumOfSquares]

\* printStats: fmt.Fprintln(b.out, rpsString(b.requests)), b.requests being
\* any histogram of RPS samples within the bounds
PrintRps ==
  /\ pc = "printStats"
  /\ Len(statOut) = 0
  /\ \E h \in RpsHistograms :
       statOut' = Append(statOut, [h |-> h, out |-> RpsString(h)])
  /\ UNCHANGED <<pctOut, conf, server, pc, certErr, barrierVars, wpc, cur,
                 workers, observerVars, statVars, timeTaken, ghostVars>>

\* printStats: fmt.Fprintln(b.out, latenciesString(b.latencies))
PrintLatencies ==
  /\ pc = "printStats"
  /\ Len(statOut) = 1
  /\ statOut' = Append(statOut, [h |-> latencies,
                                 out |-> LatenciesString(latencies)])
  /\ UNCHANGED <<pctOut, conf, server, pc, certErr, barrierVars, wpc, cur,
                 workers, observerVars, statVars, timeTaken, ghostVars>>

Next ==
  \/ NewBombardier
  \/ Cancel
  \/ Expire
  \/ \E w \in Workers : WorkerGrab(w)
  \/ \E w \in Workers : WorkerPace(w)
  \/ \E w \in Workers : WorkerDoReturn(w)
  \/ \E w \in Workers : WorkerLat(w)
  \/ \E w \in Workers : WorkerReqs(w)
  \/ \E w \in Workers : WorkerBucket(w)
  \/ \E w \in Workers : WorkerJobDone(w)
  \/ RateMeterTick
  \/ RateMeterDone
  \/ RateMeterWait
  \/ RateMeterSend
  \/ BarUpdaterPoll
  \/ BarUpdaterDone
  \/ BarUpdaterSend
  \/ Spawn
  \/ WorkersWait
  \/ Recv

Spec == Init /\ [][Next]_vars

\* one goroutine per worker: all the steps of worker w
Worker(w) ==
  /\ w \in Workers
  /\ \/ WorkerGrab(w)
     \/ WorkerPace(w)
     \/ WorkerDoReturn(w)
     \/ WorkerLat(w)
     \/ WorkerReqs(w)
     \/ WorkerBucket(w)
     \/ WorkerJobDone(w)

\* Fair scheduling: every goroutine that can take a step eventually takes
\* one, every client.do() returns, a ready done case of a select is
\* eventually chosen and the timer of the timed barrier fires.  cancel()
\* comes from outside and is not forced.
Fairness ==
  /\ WF_vars(NewBombardier)
  /\ WF_vars(Spawn)
  /\ WF_vars(WorkersWait)
  /\ WF_vars(Recv)
  /\ WF_vars(Expire)
  /\ \A w \in 1..MaxConns : WF_vars(Worker(w))
  /\ WF_vars(RateMeterDone)
  /\ WF_vars(RateMeterWait)
  /\ WF_vars(RateMeterSend)
  /\ WF_vars(BarUpdaterDone)
  /\ WF_vars(BarUpdaterSend)

\* the target of the runs checked for termination: some requests are
\* answered, some fail
LiveServer == {Ok(201, 1), Failed("timeout", 2)}

LiveInit == Init /\ server = LiveServer

FairSpec == LiveInit /\ [][Next]_vars /\ Fairness

\* printStats over a histogram of latencies: the bombardment is over and
\* the latencies recorded are any histogram within the bounds
PctInit ==
  /\ conf = [testType |-> "counted", numReqs |-> MaxReqs, numConns |-> 1,
             rate |-> FALSE]
  /\ server = LiveServer
  /\ pc = "printStats"
  /\ certErr = "none"
  /\ issued = 0 /\ completed = 0 /\ done = TRUE
  /\ expired = FALSE /\ cancelled = FALSE
  /\ wpc = [w \in Workers |-> "exited"]
  /\ cur = [w \in Workers |-> NoResult]
  /\ workers = 0 /\ doneChan = 0
  /\ rmPc = "done" /\ buPc = "done"
  /\ latencies \in Histograms
  /\ reqs = 0 /\ drained = 0
  /\ counters = [c \in CounterNames |-> 0]
  /\ errors = [e \in Errs |-> 0]
  /\ timeTaken = TRUE
  /\ calls = 0 /\ grabbed = 0 /\ jobs = 0
  /\ resp = [c \in Codes |-> 0]
  /\ errResp = 0
  /\ pctOut = <<>>
  /\ statOut = <<>>

PctNext == PrintLatencyPercentile

PctSpec == PctInit /\ [][PctNext]_vars

StatNext == PrintRps \/ PrintLatencies

StatSpec == PctInit /\ [][StatNext]_vars

Counted == conf.testType = "counted"

Timed == conf.testType = "timed"

Returned == pc = "returned"

\* ---------------------------------------------------------------- C1
\* C1: in counted mode without cancel(), client.do() is never called more
\* than R times, and it has been called exactly R times when bombard()
\* returns, for every number of workers and with or without a rate limiter
CountedFiresExactlyR ==
  (Counted /\ ~cancelled) =>
    /\ calls <= conf.numReqs
    /\ Returned => calls = conf.numReqs

CountedRunReturned ==
  /\ Counted /\ ~cancelled /\ Returned
  /\ conf.numConns = 2 /\ conf.numReqs = 2 /\ conf.rate
  /\ calls = 2

\* ---------------------------------------------------------------- C2
\* C2: in timed mode, once the deadline has passed, bombard() eventually
\* returns (all workers exited, both observers finished)
TimedBombardReturns ==
  (Timed /\ expired) ~> Returned

TimedRunReturned ==
  /\ Timed /\ expired /\ ~cancelled /\ Returned
  /\ conf.numConns = 2
  /\ calls >= 1
  /\ \A w \in Workers : wpc[w] = "exited"
  /\ rmPc = "done" /\ buPc = "done"

\* ---------------------------------------------------------------- C3
\* C3: after barrier.cancel() has been called, at any point of a counted
\* or timed bombardment, bombard() eventually returns
CancelledBombardReturns ==
  cancelled ~> Returned

\* cancelled with fewer than R requests completed, a worker having left
\* from pace() without issuing the request it had reserved
CancelledRunReturned ==
  /\ Counted /\ conf.rate /\ cancelled /\ Returned
  /\ completed < conf.numReqs
  /\ calls < grabbed
  /\ calls >= 1

\* ---------------------------------------------------------------- C4
\* C4: once done is set, no worker reserves another unit of work: a worker
\* can start only the one request it was already pacing for, a worker at
\* the head of its loop observes done and exits, and a worker that has
\* exited never starts a request again
AtMostOneCallAfterDone ==
  [][\A w \in Workers :
       /\ (done /\ wpc[w] # "pace") => wpc'[w] # "pace"
       /\ (done /\ wpc[w] = "grab" /\ wpc'[w] # "grab") => wpc'[w] = "exited"
       /\ (wpc[w] # "inflight" /\ wpc'[w] = "inflight") => wpc[w] = "pace"
       /\ (wpc[w] = "exited") => (wpc'[w] = "exited")
    ]_vars

\* done is set, one worker has observed it and left, another is about to
\* start the request it had reserved (the no-op limiter lets it go on)
DoneWithCallToStart ==
  /\ done /\ ~conf.rate
  /\ \E w \in Workers : wpc[w] = "exited"
  /\ \E w \in Workers : wpc[w] = "pace"

\* ---------------------------------------------------------------- C5
\* the status codes of each class, by their range
ClassCodes(n) ==
  CASE n = "req1xx" -> {c \in Codes : 100 <= c /\ c <= 199}
    [] n = "req2xx" -> {c \in Codes : 200 <= c /\ c <= 299}
    [] n = "req3xx" -> {c \in Codes : 300 <= c /\ c <= 399}
    [] n = "req4xx" -> {c \in Codes : 400 <= c /\ c <= 499}
    [] n = "req5xx" -> {c \in Codes : 500 <= c /\ c <= 599}
    [] n = "others" -> {c \in Codes : c < 100 \/ c >= 600}

\* responses received whose status falls in class n
Responses(n) == SumOver(resp, ClassCodes(n))

\* C5: each counter counts the responses of its class (status 0, 6xx and
\* 7xx go to others); when bombard() returns each counter equals the
\* number of responses of its class and the six counters sum to the
\* number of client.do() calls
StatusCountersMatch ==
  /\ \A n \in CounterNames : counters[n] <= Responses(n)
  /\ Returned =>
       /\ \A n \in CounterNames : counters[n] = Responses(n)
       /\ Sum(counters) = calls

MixedCodesReturned ==
  /\ Returned
  /\ counters["req1xx"] = 1
  /\ counters["others"] = 1
  /\ resp[701] = 1

\* ---------------------------------------------------------------- C6
AlwaysFails == \A r \in server : r.err # NoErr

\* C6: a request that fails with status 0 is counted once in the error
\* aggregator and once in others; in counted mode with a target whose
\* requests all fail, when bombard() returns the error sum is R, others
\* is R and the 1xx..5xx counters are 0
FailuresAccounted ==
  Returned =>
    /\ Sum(errors) = resp[0]
    /\ counters["others"] >= resp[0]
    /\ (Counted /\ ~cancelled /\ AlwaysFails) =>
         /\ Sum(errors) = conf.numReqs
         /\ counters["others"] = conf.numReqs
         /\ \A n \in CounterNames \ {"others"} : counters[n] = 0

AllFailedReturned ==
  /\ Returned /\ Counted /\ ~cancelled /\ AlwaysFails
  /\ conf.numReqs = 2 /\ conf.numConns = 2
  /\ Sum(errors) = 2

\* ---------------------------------------------------------------- C7
\* C7: when bombard() returns, every client.do() call that returned is
\* fully recorded: latency histogram total = sum of the six counters =
\* number of calls returned, and error sum = number of calls that failed
StatisticsComplete ==
  Returned =>
    /\ Sum(latencies) = Sum(resp)
    /\ Sum(counters) = Sum(resp)
    /\ Sum(resp) = calls
    /\ Sum(errors) = errResp

TwoWorkersRecorded ==
  /\ Returned
  /\ conf.numConns = 2
  /\ Sum(resp) = 2
  /\ errResp = 1
  /\ latencies[1] = 1 /\ latencies[2] = 1

\* ---------------------------------------------------------------- C8
\* C8: counted barrier: issued <= R and completed <= issued in every
\* state, issued being the successful tryGrabWork() calls and completed
\* the jobDone() calls
CountedBarrierInvariant ==
  Counted =>
    /\ issued <= conf.numReqs
    /\ completed <= issued
    /\ issued = grabbed
    /\ completed = jobs

AllIssuedTwoInFlight ==
  /\ Counted
  /\ issued = conf.numReqs
  /\ completed < issued
  /\ conf.numConns = 2
  /\ \A w \in Workers : wpc[w] = "inflight"

\* ---------------------------------------------------------------- C9
\* C9: the done signal is one-shot and stable: no step resets it, and
\* after any cancel() (first or repeated, before or after completion or
\* expiry) the barrier is done
DoneIsStable ==
  [][(done => done') /\ (cancelled' => done')]_vars

DoneTwiceOver ==
  /\ done /\ cancelled
  /\ expired \/ (Counted /\ completed = conf.numReqs)

\* --------------------------------------------------------------- C10
\* C10: when loading the client certificate fails, newBombardier returns
\* nil and the error instead of terminating the process; no worker is
\* started and no request is issued
CertFailureReturnsError ==
  certErr # "none" =>
    /\ pc = "newFailed"
    /\ workers = 0
    /\ calls = 0

\* --------------------------------------------------------------- C11
\* the rank floor(p/100 * total + 1/2), as the integer r with
\* r <= p*total/100 + 1/2 < r + 1
RankOf(p, total) ==
  CHOOSE r \in 0..(total + 1) :
    100 * r <= p * total + 50 /\ p * total + 50 < 100 * (r + 1)

\* count of the keys up to and including k
Cumulative(h, k) == SumOver(h, {j \in HistKeys(h) : j <= k})

\* C11: latenciesPercentile returns the smallest key whose cumulative
\* count is >= rank, rank = floor(p/100 * total + 0.5); 0 for an empty
\* histogram; for a non-empty one always a key of the histogram
PercentileIsSmallestKeyAtRank ==
  \A p \in DOMAIN pctOut :
    LET h == latencies
        rank == RankOf(p, HistTotal(h))
        reach == {k \in HistKeys(h) : Cumulative(h, k) >= rank}
    IN IF HistTotal(h) = 0
         THEN pctOut[p] = 0
         ELSE /\ pctOut[p] \in HistKeys(h)
              /\ pctOut[p] \in reach
              /\ \A k \in reach : pctOut[p] <= k

\* a histogram with three keys, the median in the middle key and the
\* first percentile (rank 0) on the first key
PercentilesOfThreeKeys ==
  /\ HistKeys(latencies) = {1, 2, 3}
  /\ DOMAIN pctOut = Percentiles
  /\ pctOut[1] = 1 /\ pctOut[50] = 2 /\ pctOut[100] = 3

\* --------------------------------------------------------------- C12
\* C12: percentile monotonicity: p1 <= p2 implies
\* latenciesPercentile(h, p1) <= latenciesPercentile(h, p2)
PercentileMonotone ==
  \A p1, p2 \in DOMAIN pctOut :
    p1 <= p2 => pctOut[p1] <= pctOut[p2]

PercentilesSpread ==
  /\ {50, 99} \subseteq DOMAIN pctOut
  /\ pctOut[50] < pctOut[99]
  /\ latencies[2] = 0

\* --------------------------------------------------------------- C13
\* tokens the observers have sent so far: one on reaching the return
TokensSent ==
  (IF rmPc = "done" THEN 1 ELSE 0) + (IF buPc = "done" THEN 1 ELSE 0)

\* tokens bombard() has received so far
TokensReceived ==
  IF pc = "recv2" THEN 1 ELSE IF pc = "returned" THEN 2 ELSE 0

\* C13: bombard() returns only after all workers exited and both observers
\* delivered their token; two tokens are sent per bombardment, one by each
\* observer; an observer about to send is never blocked; no token is left
\* in the channel at return
BombardReturnsAfterBothTokens ==
  /\ doneChan = TokensSent - TokensReceived
  /\ rmPc = "send" => ENABLED RateMeterSend
  /\ buPc = "send" => ENABLED BarUpdaterSend
  /\ Returned =>
       /\ \A w \in Workers : wpc[w] = "exited"
       /\ workers = 0
       /\ rmPc = "done" /\ buPc = "done"
       /\ TokensSent = 2
       /\ doneChan = 0

BothTokensReceived ==
  /\ Returned
  /\ conf.numConns = 2
  /\ TokensSent = 2 /\ TokensReceived = 2
  /\ doneChan = 0

\* --------------------------------------------------------------- C14
\* an observer has performed its final step (the progress reporter's last
\* update, the rate meter's last sample) and is sending or has sent
RateMeterFinalized == rmPc \in {"send", "done"}
BarUpdaterFinalized == buPc \in {"send", "done"}
AllWorkersExited == \A w \in Workers : wpc[w] = "exited"

\* C14 as stated: timeTaken is assigned after the last worker exit and
\* before either observer performs its final step and sends its token
TimeTakenBeforeObserversFinalize ==
  /\ timeTaken => AllWorkersExited
  /\ (RateMeterFinalized \/ BarUpdaterFinalized) => timeTaken

\* C14 amended: timeTaken is assigned after the last worker exit and
\* before bombard() receives either completion token; the observers may
\* finalize and send before the assignment
TimeTakenAfterWorkersBeforeReceive ==
  /\ timeTaken => AllWorkersExited /\ workers = 0
  /\ TokensReceived > 0 => timeTaken
  /\ pc \in {"recv1", "recv2", "returned"} => timeTaken

\* timeTaken recorded, no token received yet, the progress reporter has
\* sent its token and the rate meter has not yet taken its last sample
TimeTakenRecordedBetweenObservers ==
  /\ timeTaken /\ pc = "recv1"
  /\ buPc = "done" /\ rmPc \in {"select", "wait"}

\* --------------------------------------------------------------- C15
\* C15 as stated: neither observer finalizes before the workers are
\* finished: the progress reporter's final update and token and the rate
\* meter's termination occur only after every worker has returned
ObserversFinalizeAfterWorkers ==
  /\ BarUpdaterFinalized => AllWorkersExited
  /\ RateMeterFinalized => AllWorkersExited

\* C15 amended: the rate meter's final sample, token and termination occur
\* only after every worker has returned; the progress reporter's final
\* update and token occur only after done is set, but possibly while
\* workers are still running; bombard() returns only after every worker
\* has returned
RateMeterFinalizesAfterWorkers ==
  /\ RateMeterFinalized => AllWorkersExited /\ workers = 0
  /\ BarUpdaterFinalized => done
  /\ Returned => AllWorkersExited

\* the progress reporter has sent its token while a request is in flight
\* and the rate meter waits for the workers
BarUpdaterDoneWhileInFlight ==
  /\ buPc = "done" /\ rmPc = "wait"
  /\ \E w \in Workers : wpc[w] = "inflight"

\* --------------------------------------------------------------- C16
\* the steps of the rate meter's done case
RateMeterObservesDone == rmPc = "select" /\ rmPc' = "wait"
RateMeterLeavesWait == rmPc = "wait" /\ rmPc' # "wait"
RateMeterSignals == rmPc = "send" /\ rmPc' # "send"
FinalSampleTaken == reqs' = 0 /\ drained' = drained + reqs

\* C16 as stated: on observing done the rate meter drains one final
\* sample, then waits for all workers to have exited, then signals
RateMeterSamplesThenWaits ==
  [][/\ RateMeterObservesDone => FinalSampleTaken
     /\ RateMeterLeavesWait =>
          workers = 0 /\ rmPc' = "send" /\ UNCHANGED <<reqs, drained>>
     /\ RateMeterSignals =>
          rmPc' = "done" /\ doneChan' = doneChan + 1]_vars

\* C16 amended: on observing done the rate meter waits for all workers to
\* have exited, then drains one final sample, then signals completion and
\* terminates
RateMeterWaitsThenSamples ==
  [][/\ RateMeterObservesDone => done /\ UNCHANGED <<reqs, drained>>
     /\ RateMeterLeavesWait =>
          workers = 0 /\ rmPc' = "send" /\ FinalSampleTaken
     /\ RateMeterSignals =>
          /\ rmPc' = "done" /\ doneChan' = doneChan + 1
          /\ UNCHANGED <<reqs, drained>>]_vars

\* the rate meter has observed done and waits for a running worker while
\* requests counted since the last tick are not yet sampled
RateMeterWaitsWithUnsampledRequests ==
  /\ rmPc = "wait"
  /\ workers > 0
  /\ reqs > 0

\* --------------------------------------------------------------- C17
\* workers at a given point of performSingleRequest / writeStatistics
WorkersAt(l) == Cardinality({w \in Workers : wpc[w] = l})

\* requests whose b.reqs++ has happened
CountedRequests == reqs + drained

InIteration ==
  WorkersAt("inflight") + WorkersAt("lat") + WorkersAt("reqs")
    + WorkersAt("bucket") + WorkersAt("jobdone")

\* one step of worker w: the place it moves to and the calls it makes
WorkerStep(w) ==
  wpc'[w] # wpc[w] =>
    CASE wpc[w] = "idle" ->
           wpc'[w] = "grab" /\ UNCHANGED <<grabbed, calls, jobs>>
      [] wpc[w] = "grab" ->
           \/ /\ wpc'[w] = "pace" /\ TryGrabWork
              /\ grabbed' = grabbed + 1 /\ UNCHANGED <<calls, jobs>>
           \/ /\ wpc'[w] = "exited" /\ ~TryGrabWork
              /\ UNCHANGED <<grabbed, calls, jobs, issued, completed>>
      [] wpc[w] = "pace" ->
           \/ /\ wpc'[w] = "inflight"
              /\ calls' = calls + 1 /\ UNCHANGED <<grabbed, jobs>>
           \/ /\ wpc'[w] = "exited" /\ conf.rate /\ done
              /\ UNCHANGED <<grabbed, calls, jobs, issued, completed>>
      [] wpc[w] = "inflight" ->
           wpc'[w] = "lat" /\ UNCHANGED <<grabbed, calls, jobs>>
      [] wpc[w] = "lat" ->
           wpc'[w] = "reqs" /\ UNCHANGED <<grabbed, calls, jobs>>
      [] wpc[w] = "reqs" ->
           wpc'[w] = "bucket" /\ UNCHANGED <<grabbed, calls, jobs>>
      [] wpc[w] = "bucket" ->
           wpc'[w] = "jobdone" /\ UNCHANGED <<grabbed, calls, jobs>>
      [] wpc[w] = "jobdone" ->
           /\ wpc'[w] = "grab"
           /\ jobs' = jobs + 1 /\ completed' = CompletedAfterJobDone
           /\ UNCHANGED <<grabbed, calls>>
      [] OTHER -> FALSE

\* every call of tryGrabWork, client.do and jobDone is a step of a worker
CallsOnlyInWorkerSteps ==
  (grabbed' # grabbed \/ calls' # calls \/ jobs' # jobs) =>
    \E w \in Workers : wpc'[w] # wpc[w]

\* C18: each iteration calls tryGrabWork, then pace, then client.do with
\* the statistics recording, then jobDone, in that order; on brk the worker
\* exits without client.do and without jobDone for the unit it reserved;
\* jobDone is called exactly once per client.do call
WorkerLoopProtocol ==
  /\ [](jobs + InIteration = calls /\ calls + WorkersAt("pace") <= grabbed)
  /\ [][CallsOnlyInWorkerSteps /\ \A w \in Workers : WorkerStep(w)]_vars

\* a worker has left on brk with the unit it reserved, after a request
\* that went through the whole iteration
BreakExitWithReservedUnit ==
  /\ conf.rate /\ done
  /\ calls + WorkersAt("pace") < grabbed
  /\ calls > 0 /\ jobs = calls
  /\ \E w \in Workers : wpc[w] = "exited"

\* --------------------------------------------------------------- C19
\* requests whose b.reqs++ has happened: those returned by client.do()
\* less those still before the increment
CounterIncrements == Sum(resp) - WorkersAt("lat") - WorkersAt("reqs")

\* C19: (request counts already drained into RPS samples) + (current
\* counter value) = number of requests whose counter increment has
\* happened; when bombard() returns the counter is 0 and every performed
\* request is in an RPS sample
RpsCounterConserved ==
  /\ drained + reqs = CounterIncrements
  /\ Returned => reqs = 0 /\ drained = calls

\* two requests performed, both drained into RPS samples at return
AllRequestsSampled ==
  /\ Returned
  /\ calls = 2
  /\ drained = 2 /\ reqs = 0

\* --------------------------------------------------------------- C20
\* client.do() calls started and not yet returned
InFlight == calls - Sum(resp)

\* bombard() has been entered: the workers are counted in b.workers
Bombarding == pc \in {"bombard", "wait", "recv1", "recv2", "returned"}

\* C20: the client.do() calls in flight are at most N; exactly N workers
\* are spawned, each with at most one request outstanding; in counted mode
\* issued - completed never exceeds N
InFlightAtMostConns ==
  /\ InFlight = WorkersAt("inflight")
  /\ InFlight <= conf.numConns
  /\ Bombarding => workers + WorkersAt("exited") = conf.numConns
  /\ Counted => issued - completed <= conf.numConns

\* two connections, both with a request in flight, in counted mode
BothConnectionsInFlight ==
  /\ Counted
  /\ conf.numConns = 2
  /\ InFlight = 2
  /\ issued - completed = 2

\* --------------------------------------------------------------- C21
\* the sample a printed entry was computed from: <<key, count>> for every
\* key the computation visits
SampleOf(e) ==
  IF e.out.fn = "rpsString"
    THEN {<<f.v, e.h[f]>> : f \in RpsVisited(e.h)}
    ELSE {<<k, e.h[k]>> : k \in HistKeys(e.h)}

\* C21: mean and standard deviation treat the histogram as a weighted
\* sample: count = 1 + sum of the key counts, mean = sum(key*count)/count,
\* stddev = sqrt(sum(count*(key-mean)^2)/count), every key's squared
\* deviation weighted by its occurrence count; for an empty histogram mean,
\* stddev and max are 0, with no division by zero
MeanStddevWeighted ==
  \A i \in 1..Len(statOut) :
    LET e == statOut[i]
        S == SampleOf(e)
        count == 1 + SumOver([x \in S |-> x[2]], S)
        sum == SumOver([x \in S |-> x[1] * x[2]], S)
        weighted == [x \in S |-> x[2] * Deviation2(x[1], sum, count)]
    IN /\ e.out.count = count /\ count > 0
       /\ e.out.sum = sum
       /\ e.out.sqNum = SumOver(weighted, S)
       /\ S = {} => e.out.sum = 0 /\ e.out.sqNum = 0 /\ e.out.max = 0
====
